---------------------------- MODULE Spec2Model ----------------------------
(***************************************************************************)
(* Arabic morphological engine: the Root Index (AVL tree), the Pattern     *)
(* Store (chained hash table), the text normaliser and the engine that     *)
(* connects them.  Strings are sequences of Unicode code points, so that   *)
(* Python's str comparison (code-point lexicographic) and ord() are what   *)
(* the code computes.                                                      *)
(***************************************************************************)
EXTENDS Integers, Sequences, FiniteSets, TLC

VARIABLES
  tree,        \* MorphologicalEngine.roots_tree.root : the AVL root node or Nil
  table,       \* MorphologicalEngine.patterns_table : [capacity, size, buckets]
  initCap,     \* the initial_capacity the table was constructed with
  last,        \* the call that produced this state and what it returned
  accepted,    \* history: raw root strings AVLTree.insert accepted so far
  shadow       \* history: pattern key -> value most recently inserted, not deleted

vars == <<tree, table, initCap, last, accepted, shadow>>

-----------------------------------------------------------------------------
(* Code points *)

Hamza == 1569
AlefMadda == 1570
AlefHamzaAbove == 1571
WawHamza == 1572
AlefHamzaBelow == 1573
YaHamza == 1574
Alef == 1575
Ba == 1576
TaMarbuta == 1577
Ta == 1578
Dal == 1583
Ra == 1585
Sin == 1587
Ain == 1593
Fa == 1601
Kaf == 1603
Lam == 1604
Mim == 1605
Ha == 1607
Waw == 1608
AlefMaqsura == 1609
Ya == 1610
Fatha == 1614
Shadda == 1617
AlefWasla == 1649
LatinX == 88
D1 == 49
D2 == 50
D3 == 51

\* ArabicUtils.ARABIC_LETTERS
ARABIC_LETTERS ==
  (1569..1594) \cup (1601..1610) \cup {1649, 1662, 1670, 1688, 1700, 1711, 1749}

\* ArabicUtils.DIACRITICS (U+064B .. U+0655)
DIACRITICS == 1611..1621

\* Python: the empty string
EmptyStr == << >>

\* Python: None
None == [none |-> TRUE]

-----------------------------------------------------------------------------
(* Python str primitives *)

\* a < b on str: lexicographic by code point
RECURSIVE StrLess(_, _)
StrLess(a, b) ==
  IF b = EmptyStr THEN FALSE
  ELSE IF a = EmptyStr THEN TRUE
  ELSE IF Head(a) < Head(b) THEN TRUE
  ELSE IF Head(a) > Head(b) THEN FALSE
  ELSE StrLess(Tail(a), Tail(b))

\* str.isspace() for one character (also what \s matches in re)
IsSpace(c) == c \in ((9..13) \cup (28..32) \cup {133, 160})

\* str.strip()
RECURSIVE LStrip(_)
LStrip(s) == IF s # EmptyStr /\ IsSpace(Head(s)) THEN LStrip(Tail(s)) ELSE s

RECURSIVE RStrip(_)
RStrip(s) ==
  IF s # EmptyStr /\ IsSpace(s[Len(s)]) THEN RStrip(SubSeq(s, 1, Len(s) - 1)) ELSE s

Strip(s) == RStrip(LStrip(s))

\* str.isdigit() for one character: decimal digits of the scripts in reach, and
\* the superscript digits, for which int() raises ValueError
DecimalDigits == (48..57) \cup (1632..1641) \cup (1776..1785)
SuperscriptDigits == {178, 179, 185}
IsDigit(c) == c \in (DecimalDigits \cup SuperscriptDigits)

\* int(char) for a decimal digit
DigitValue(c) ==
  IF c \in 48..57 THEN c - 48
  ELSE IF c \in 1632..1641 THEN c - 1632
  ELSE c - 1776

-----------------------------------------------------------------------------
(* ArabicUtils *)

\* ArabicUtils.is_diacritic
is_diacritic(c) == c \in DIACRITICS \/ c = Shadda

\* ArabicUtils.expand_shadda: the while loop from index i (1-based)
RECURSIVE expand_shadda_from(_, _)
expand_shadda_from(text, i) ==
  IF i > Len(text) THEN EmptyStr
  ELSE IF i + 1 <= Len(text) /\ text[i + 1] = Shadda
       THEN <<text[i], text[i]>> \o expand_shadda_from(text, i + 2)
       ELSE <<text[i]>> \o expand_shadda_from(text, i + 1)

expand_shadda(text) == IF text = EmptyStr THEN text ELSE expand_shadda_from(text, 1)

\* the non-aggressive replacement list of normalize_arabic
FoldPreserveHamza(c) ==
  IF c \in {AlefMadda, AlefHamzaBelow, AlefWasla} THEN Alef
  ELSE IF c = AlefMaqsura THEN Ya
  ELSE IF c = TaMarbuta THEN Ha
  ELSE c

\* ArabicUtils.NORMALIZATION_MAP
NORMALIZATION_MAP(c) ==
  IF c \in {AlefMadda, AlefHamzaAbove, AlefHamzaBelow, AlefWasla} THEN Alef
  ELSE IF c \in {AlefMaqsura, YaHamza} THEN Ya
  ELSE IF c = TaMarbuta THEN Ha
  ELSE IF c = WawHamza THEN Waw
  ELSE c

\* re.sub(r'[^\u0600-\u06FF\s]', '', text) keeps these characters
InArabicBlockOrSpace(c) == c \in 1536..1791 \/ IsSpace(c)

\* the text.replace(variant, standard) loops of normalize_arabic
RECURSIVE ReplaceVariants(_, _)
ReplaceVariants(text, aggressive) ==
  IF text = EmptyStr THEN EmptyStr
  ELSE <<IF aggressive THEN NORMALIZATION_MAP(Head(text))
         ELSE FoldPreserveHamza(Head(text))>>
         \o ReplaceVariants(Tail(text), aggressive)

\* ArabicUtils.normalize_arabic
normalize_arabic(text, aggressive, expand) ==
  IF text = EmptyStr THEN EmptyStr
  ELSE
    LET t1 == IF expand THEN expand_shadda(text) ELSE text
        t2 == SelectSeq(t1, LAMBDA c : c \notin DIACRITICS)
        t3 == ReplaceVariants(t2, aggressive)
        t4 == SelectSeq(t3, InArabicBlockOrSpace)
    IN  Strip(t4)

\* ArabicUtils.is_valid_root
is_valid_root(root) ==
  IF root = EmptyStr THEN FALSE
  ELSE
    LET expanded_root == expand_shadda(root)
    IN  /\ Len(expanded_root) = 3
        /\ \A i \in 1..3 :
             expanded_root[i] \in ARABIC_LETTERS \/ is_diacritic(expanded_root[i])

\* ArabicUtils.apply_pattern, the loop over the template: a digit emits the root
\* letter of that position, any other character is emitted as it is
RECURSIVE Substitute(_, _)
Substitute(expanded_root, pattern_template) ==
  IF pattern_template = EmptyStr THEN EmptyStr
  ELSE LET char == Head(pattern_template)
       IN  <<IF IsDigit(char) THEN expanded_root[DigitValue(char)] ELSE char>>
             \o Substitute(expanded_root, Tail(pattern_template))

\* apply_pattern with the position test "root_position > 2": the third root
\* position is refused
apply_pattern_two_positions(root, pattern_template) ==
  LET expanded_root == expand_shadda(root)
      badDigit(c) == IsDigit(c) /\
                     (c \in SuperscriptDigits \/ DigitValue(c) < 1 \/ DigitValue(c) > 2)
  IN  IF Len(expanded_root) # 3 THEN [raised |-> TRUE, word |-> EmptyStr]
      ELSE IF \E i \in 1..Len(pattern_template) : badDigit(pattern_template[i])
      THEN [raised |-> TRUE, word |-> EmptyStr]
      ELSE [raised |-> FALSE,
            word |-> Substitute(expanded_root, pattern_template)]

\* ArabicUtils.apply_pattern; raised = TRUE stands for the ValueError
apply_pattern(root, pattern_template) ==
  LET expanded_root == expand_shadda(root)
      badDigit(c) == IsDigit(c) /\
                     (c \in SuperscriptDigits \/ DigitValue(c) < 1 \/ DigitValue(c) > 3)
  IN  IF Len(expanded_root) # 3 THEN [raised |-> TRUE, word |-> EmptyStr]
      ELSE IF \E i \in 1..Len(pattern_template) : badDigit(pattern_template[i])
      THEN [raised |-> TRUE, word |-> EmptyStr]
      ELSE [raised |-> FALSE,
            word |-> Substitute(expanded_root, pattern_template)]

\* ArabicUtils.find_pattern_match
find_pattern_match(word, root, pattern_template) ==
  LET g == apply_pattern(root, pattern_template)
  IN  IF g.raised THEN FALSE
      ELSE \/ normalize_arabic(word, FALSE, TRUE) = normalize_arabic(g.word, FALSE, TRUE)
           \/ normalize_arabic(word, TRUE, TRUE) = normalize_arabic(g.word, TRUE, TRUE)
           \/ word = g.word

-----------------------------------------------------------------------------
(* AVLNode *)

\* an absent child / an empty tree (Python None in a node position)
Nil == [nil |-> TRUE]

\* AVLNode.__init__
AVLNode(root) ==
  [root |-> root, derivatives |-> << >>, frequency |-> 1,
   left |-> Nil, right |-> Nil, height |-> 1]

\* a faulty add_derivative that appends a row on every call
add_derivative_append(derivatives, word, pattern) ==
  Append(derivatives, [word |-> word, pattern |-> pattern, frequency |-> 1])

\* AVLNode.add_derivative: the first equal (word, pattern) row is incremented,
\* otherwise a row with frequency 1 is appended
add_derivative(derivatives, word, pattern) ==
  LET hits == {i \in 1..Len(derivatives) :
                 derivatives[i].word = word /\ derivatives[i].pattern = pattern}
  IN  IF hits # {}
      THEN LET i == CHOOSE j \in hits : \A k \in hits : j <= k
           IN  [derivatives EXCEPT ![i].frequency = @ + 1]
      ELSE Append(derivatives, [word |-> word, pattern |-> pattern, frequency |-> 1])

\* AVLNode.remove_derivative comparing the word only, whatever the pattern given
remove_derivative_any_pattern(derivatives, word, pattern) ==
  LET hit(d) == d.word = word
  IN  [derivatives |-> SelectSeq(derivatives, LAMBDA d : ~hit(d)),
       removed |-> \E i \in 1..Len(derivatives) : hit(derivatives[i])]

\* AVLNode.remove_derivative: pattern may be None
AVLNode_remove_derivative(derivatives, word, pattern) ==
  LET hit(d) == d.word = word /\ (pattern = None \/ d.pattern = pattern)
  IN  [derivatives |-> SelectSeq(derivatives, LAMBDA d : ~hit(d)),
       removed |-> \E i \in 1..Len(derivatives) : hit(derivatives[i])]

\* AVLNode.clear_derivatives
clear_derivatives(derivatives) == << >>

-----------------------------------------------------------------------------
(* AVLTree *)

Max(a, b) == IF a >= b THEN a ELSE b

\* AVLTree._get_height: the stored height field
_get_height(node) == IF node = Nil THEN 0 ELSE node.height

\* AVLTree._get_balance
_get_balance(node) ==
  IF node = Nil THEN 0 ELSE _get_height(node.left) - _get_height(node.right)

\* a faulty _right_rotate that updates the height of the new subtree root only
_right_rotate_stale_height(y) ==
  LET x  == y.left
      T2 == x.right
      y1 == [y EXCEPT !.left = T2]
      x1 == [x EXCEPT !.right = y1]
  IN  [x1 EXCEPT !.height = 1 + Max(_get_height(x1.left), _get_height(x1.right))]

\* AVLTree._right_rotate
_right_rotate(y) ==
  LET x  == y.left
      T2 == x.right
      y1 == [y EXCEPT !.left = T2]
      y2 == [y1 EXCEPT !.height = 1 + Max(_get_height(y1.left), _get_height(y1.right))]
      x1 == [x EXCEPT !.right = y2]
  IN  [x1 EXCEPT !.height = 1 + Max(_get_height(x1.left), _get_height(x1.right))]

\* a faulty _left_rotate that builds the node moved down anew from its root, as
\* AVLNode(root) does, and so drops its derivatives
_left_rotate_new_node(x) ==
  LET y  == x.right
      T2 == y.left
      x1 == [AVLNode(x.root) EXCEPT !.left = x.left, !.right = T2,
                                    !.frequency = x.frequency]
      x2 == [x1 EXCEPT !.height = 1 + Max(_get_height(x1.left), _get_height(x1.right))]
      y1 == [y EXCEPT !.left = x2]
  IN  [y1 EXCEPT !.height = 1 + Max(_get_height(y1.left), _get_height(y1.right))]

\* AVLTree._left_rotate
_left_rotate(x) ==
  LET y  == x.right
      T2 == y.left
      x1 == [x EXCEPT !.right = T2]
      x2 == [x1 EXCEPT !.height = 1 + Max(_get_height(x1.left), _get_height(x1.right))]
      y1 == [y EXCEPT !.left = x2]
  IN  [y1 EXCEPT !.height = 1 + Max(_get_height(y1.left), _get_height(y1.right))]

\* a faulty _insert that updates the height and never rotates
RebalanceHeightOnly(node0, root) ==
  [node0 EXCEPT !.height = 1 + Max(_get_height(node0.left), _get_height(node0.right))]

\* AVLTree._insert, steps 2-4: height update and the four rebalancing cases
Rebalance(node0, root) ==
  LET node == [node0 EXCEPT !.height =
                 1 + Max(_get_height(node0.left), _get_height(node0.right))]
      balance == _get_balance(node)
  IN  IF balance > 1 /\ StrLess(root, node.left.root) THEN _right_rotate(node)
      ELSE IF balance < -1 /\ StrLess(node.right.root, root) THEN _left_rotate(node)
      ELSE IF balance > 1 /\ StrLess(node.left.root, root)
           THEN _right_rotate([node EXCEPT !.left = _left_rotate(node.left)])
      ELSE IF balance < -1 /\ StrLess(root, node.right.root)
           THEN _left_rotate([node EXCEPT !.right = _right_rotate(node.right)])
      ELSE node

\* a faulty _insert that leaves the occurrence count of a stored root alone
RECURSIVE _insert_keep_count(_, _)
_insert_keep_count(node, root) ==
  IF node = Nil THEN AVLNode(root)
  ELSE IF StrLess(root, node.root)
       THEN Rebalance([node EXCEPT !.left = _insert_keep_count(node.left, root)], root)
  ELSE IF StrLess(node.root, root)
       THEN Rebalance([node EXCEPT !.right = _insert_keep_count(node.right, root)], root)
  ELSE node

\* AVLTree._insert
RECURSIVE _insert(_, _)
_insert(node, root) ==
  IF node = Nil THEN AVLNode(root)
  ELSE IF StrLess(root, node.root)
       THEN Rebalance([node EXCEPT !.left = _insert(node.left, root)], root)
  ELSE IF StrLess(node.root, root)
       THEN Rebalance([node EXCEPT !.right = _insert(node.right, root)], root)
  ELSE [node EXCEPT !.frequency = @ + 1]

\* AVLTree.insert without the validity test of the normalized root
AVLTree_insert_unchecked(t, root) == _insert(t, normalize_arabic(root, FALSE, TRUE))

\* AVLTree.insert: the tree after the call
AVLTree_insert(t, root) ==
  LET normalized_root == normalize_arabic(root, FALSE, TRUE)
  IN  IF ~is_valid_root(normalized_root) THEN t ELSE _insert(t, normalized_root)

\* AVLTree._search / AVLTree.search: the node or Nil
RECURSIVE _search(_, _)
_search(node, root) ==
  IF node = Nil \/ node.root = root THEN node
  ELSE IF StrLess(root, node.root) THEN _search(node.left, root)
  ELSE _search(node.right, root)

\* a faulty traversal that visits the node before its left subtree
RECURSIVE display_preorder(_)
display_preorder(node) ==
  IF node = Nil THEN << >>
  ELSE <<node.root>> \o display_preorder(node.left) \o display_preorder(node.right)

\* AVLTree._inorder_traversal / display_inorder
RECURSIVE display_inorder(_)
display_inorder(node) ==
  IF node = Nil THEN << >>
  ELSE display_inorder(node.left) \o <<node.root>> \o display_inorder(node.right)

\* AVLTree._count_nodes / count_nodes
RECURSIVE count_nodes(_)
count_nodes(node) ==
  IF node = Nil THEN 0 ELSE 1 + count_nodes(node.left) + count_nodes(node.right)

\* AVLTree.get_tree_height
get_tree_height(t) == _get_height(t)

\* AVLTree._collect_nodes / get_all_nodes: the nodes in order
RECURSIVE get_all_nodes(_)
get_all_nodes(node) ==
  IF node = Nil THEN << >>
  ELSE get_all_nodes(node.left) \o <<node>> \o get_all_nodes(node.right)

\* the tree with the derivative list of the node holding `root` replaced
\* (an in-place mutation of the node AVLTree.search returned)
RECURSIVE SetDerivatives(_, _, _)
SetDerivatives(node, root, derivs) ==
  IF node = Nil THEN Nil
  ELSE IF node.root = root THEN [node EXCEPT !.derivatives = derivs]
  ELSE IF StrLess(root, node.root)
       THEN [node EXCEPT !.left = SetDerivatives(node.left, root, derivs)]
  ELSE [node EXCEPT !.right = SetDerivatives(node.right, root, derivs)]

\* AVLTree.remove_derivative
AVLTree_remove_derivative(t, root, word, pattern) ==
  LET node == _search(t, root)
  IN  IF node # Nil
      THEN LET r == AVLNode_remove_derivative(node.derivatives, word, pattern)
           IN  [tree |-> SetDerivatives(t, root, r.derivatives), ret |-> r.removed]
      ELSE [tree |-> t, ret |-> FALSE]

-----------------------------------------------------------------------------
(* HashTable.  A table is [capacity, size, buckets]; buckets[i + 1] is the    *)
(* chain of bucket index i, a sequence of [key, value] in link order.  A     *)
(* value is a Python dict: a function from field names to strings.           *)

\* Python truthiness of a search result: neither None nor the empty dict
Truthy(v) == v # None /\ v # << >>

\* default of HashTable.__init__(initial_capacity)
DEFAULT_CAPACITY == 50

\* [None] * n : n empty chains
RECURSIVE EmptyBuckets(_)
EmptyBuckets(n) == IF n = 0 THEN << >> ELSE Append(EmptyBuckets(n - 1), << >>)

\* HashTable.__init__
HashTable(initial_capacity) ==
  [capacity |-> initial_capacity, size |-> 0, buckets |-> EmptyBuckets(initial_capacity)]

\* HashTable.hash_function: the loop over the first n characters of key
RECURSIVE hash_prefix(_, _, _)
hash_prefix(capacity, key, n) ==
  IF n = 0 THEN 0
  ELSE (hash_prefix(capacity, key, n - 1) * 31 + key[n]) % capacity

hash_function(capacity, key) == hash_prefix(capacity, key, Len(key))

\* position in a chain of the first entry with this key, 0 if none
ChainIndex(chain, key) ==
  LET hits == {i \in 1..Len(chain) : chain[i].key = key}
  IN  IF hits = {} THEN 0 ELSE CHOOSE i \in hits : \A j \in hits : i <= j

\* HashTable.get_all_patterns: (key, value) pairs by bucket, then by chain order
RECURSIVE get_all_from(_, _)
get_all_from(buckets, i) ==
  IF i > Len(buckets) THEN << >> ELSE buckets[i] \o get_all_from(buckets, i + 1)

get_all_patterns(ht) == get_all_from(ht.buckets, 1)

\* a faulty insert that counts an overwrite as a new entry
PlaceCountingOverwrite(ht, key, value) ==
  LET index == hash_function(ht.capacity, key) + 1
      chain == ht.buckets[index]
      at    == ChainIndex(chain, key)
  IN  IF at # 0
      THEN [ht EXCEPT !.buckets[index][at].value = value, !.size = @ + 1]
      ELSE [ht EXCEPT !.buckets[index] = Append(chain, [key |-> key, value |-> value]),
                      !.size = @ + 1]

\* HashTable.insert lines 80-101: place or overwrite, no resize check
Place(ht, key, value) ==
  LET index == hash_function(ht.capacity, key) + 1
      chain == ht.buckets[index]
      at    == ChainIndex(chain, key)
  IN  IF at # 0
      THEN [ht EXCEPT !.buckets[index][at].value = value]
      ELSE [ht EXCEPT !.buckets[index] = Append(chain, [key |-> key, value |-> value]),
                      !.size = @ + 1]

\* a faulty load test that lets the table fill to exactly the threshold
NeedsResizeAboveThreshold(ht) == ht.size * 4 > ht.capacity * 3

\* HashTable.insert line 77: size / capacity >= load_factor_threshold (0.75)
NeedsResize(ht) == ht.size * 4 >= ht.capacity * 3

RECURSIVE HashTable_insert(_, _, _)
RECURSIVE RehashFrom(_, _, _)

\* HashTable._resize, the rehash loop: self.insert for each old entry from i on
RehashFrom(ht, old, i) ==
  IF i > Len(old) THEN ht
  ELSE RehashFrom(HashTable_insert(ht, old[i].key, old[i].value), old, i + 1)

\* a faulty _resize that doubles the bucket array and leaves the chains where
\* they were
_resize_in_place(ht) ==
  [capacity |-> ht.capacity * 2, size |-> ht.size,
   buckets |-> ht.buckets \o EmptyBuckets(ht.capacity)]

\* a faulty _resize that grows to the next odd capacity
_resize_odd(ht) == RehashFrom(HashTable(ht.capacity * 2 + 1), get_all_patterns(ht), 1)

\* HashTable._resize
_resize(ht) == RehashFrom(HashTable(ht.capacity * 2), get_all_patterns(ht), 1)

\* HashTable.insert
HashTable_insert(ht, key, value) ==
  Place(IF NeedsResize(ht) THEN _resize(ht) ELSE ht, key, value)

\* HashTable.search
HashTable_search(ht, key) ==
  LET chain == ht.buckets[hash_function(ht.capacity, key) + 1]
      at    == ChainIndex(chain, key)
  IN  IF at = 0 THEN None ELSE chain[at].value

\* sequence s without its i-th element
RemoveAt(s, i) == SubSeq(s, 1, i - 1) \o SubSeq(s, i + 1, Len(s))

\* a faulty delete that unlinks the whole chain of the bucket with the entry
HashTable_delete_chain(ht, key) ==
  LET index == hash_function(ht.capacity, key) + 1
      chain == ht.buckets[index]
      at    == ChainIndex(chain, key)
  IN  IF at = 0 THEN [ht |-> ht, ret |-> FALSE]
      ELSE [ht |-> [ht EXCEPT !.buckets[index] = << >>, !.size = @ - 1],
            ret |-> TRUE]

\* HashTable.delete
HashTable_delete(ht, key) ==
  LET index == hash_function(ht.capacity, key) + 1
      chain == ht.buckets[index]
      at    == ChainIndex(chain, key)
  IN  IF at = 0 THEN [ht |-> ht, ret |-> FALSE]
      ELSE [ht |-> [ht EXCEPT !.buckets[index] = RemoveAt(chain, at), !.size = @ - 1],
            ret |-> TRUE]

\* HashTable._validate_template: exactly three characters out of '123'
_validate_template(template) ==
  IF template = EmptyStr THEN FALSE
  ELSE Cardinality({i \in 1..Len(template) : template[i] \in {D1, D2, D3}}) = 3

\* HashTable.add_pattern_with_validation
add_pattern_with_validation(ht, key, pattern_data) ==
  IF "template" \notin DOMAIN pattern_data THEN [ht |-> ht, ret |-> FALSE]
  ELSE IF ~_validate_template(pattern_data["template"]) THEN [ht |-> ht, ret |-> FALSE]
  ELSE IF Truthy(HashTable_search(ht, key)) THEN [ht |-> ht, ret |-> FALSE]
  ELSE [ht |-> HashTable_insert(ht, key, pattern_data), ret |-> TRUE]

\* dict.update
DictUpdate(d, updates) == updates @@ d

\* HashTable.update_pattern
update_pattern(ht, key, updates) ==
  LET existing == HashTable_search(ht, key)
  IN  IF ~Truthy(existing) THEN [ht |-> ht, ret |-> FALSE]
      ELSE [ht |-> HashTable_insert(ht, key, DictUpdate(existing, updates)),
            ret |-> TRUE]

-----------------------------------------------------------------------------
(* RootClassifier *)

WEAK_LETTERS == {Waw, Ya, Alef, AlefMaqsura}
HAMZA_LETTERS == {Hamza, AlefHamzaAbove, AlefHamzaBelow, AlefMadda, WawHamza, YaHamza}

\* RootClassifier._find_hamza_positions / _find_weak_positions: the 0-based
\* places of the characters of root that are in letters, in ascending order
RECURSIVE PositionsFrom(_, _, _)
PositionsFrom(root, letters, i) ==
  IF i > Len(root) THEN << >>
  ELSE (IF root[i] \in letters THEN <<i - 1>> ELSE << >>)
       \o PositionsFrom(root, letters, i + 1)

_find_hamza_positions(root) == PositionsFrom(root, HAMZA_LETTERS, 1)
_find_weak_positions(root) == PositionsFrom(root, WEAK_LETTERS, 1)

\* RootClassifier._determine_category: the category and the subtype, each named
\* by the branch of the code that returns it
_determine_category(root, hamza_positions, weak_positions, is_doubled) ==
  IF hamza_positions # << >>
  THEN [category |-> "HAMZATED",
        subtype |-> IF Len(hamza_positions) = 1
                    THEN (IF hamza_positions[1] = 0 THEN "hamzated first radical"
                          ELSE IF hamza_positions[1] = 1 THEN "hamzated second radical"
                          ELSE "hamzated third radical")
                    ELSE "hamzated multiple"]
  ELSE IF is_doubled
  THEN [category |-> "DOUBLED", subtype |-> "doubled"]
  ELSE IF weak_positions # << >>
  THEN [category |-> "WEAK",
        subtype |-> IF Len(weak_positions) = 1
                    THEN (IF weak_positions[1] = 0 THEN "FIRST_RADICAL_WEAK"
                          ELSE IF weak_positions[1] = 1 THEN "SECOND_RADICAL_WEAK"
                          ELSE "THIRD_RADICAL_WEAK")
                    ELSE IF Len(weak_positions) = 2
                    THEN (IF weak_positions = <<0, 2>> THEN "DOUBLE_WEAK_SEPARATED"
                          ELSE IF weak_positions = <<1, 2>> THEN "DOUBLE_WEAK_JOINED"
                          ELSE "double weak other")
                    ELSE "weak complete"]
  ELSE [category |-> "SOUND", subtype |-> "SOUND_PERFECT"]

\* RootClassifier.classify; the RootAnalysis without its description, subtype
\* None where the code gives None
classify(root) ==
  LET normalized_root == normalize_arabic(root, FALSE, TRUE)
      is_doubled == /\ normalized_root[2] = normalized_root[3]
                    /\ normalized_root[2] \notin WEAK_LETTERS
      hamza_positions == _find_hamza_positions(normalized_root)
      weak_positions == _find_weak_positions(normalized_root)
      c == _determine_category(normalized_root, hamza_positions, weak_positions,
                               is_doubled)
  IN  IF Len(normalized_root) # 3
      THEN [root |-> root, category |-> "UNKNOWN", subtype |-> None,
            weak_positions |-> << >>, hamza_positions |-> << >>,
            is_doubled |-> FALSE]
      ELSE [root |-> normalized_root, category |-> c.category,
            subtype |-> c.subtype, weak_positions |-> weak_positions,
            hamza_positions |-> hamza_positions, is_doubled |-> is_doubled]

\* RootClassifier._handle_hollow_root; raised = TRUE stands for the TypeError of
\* calling the one-parameter lambda stored under "مفعول" with (word, root)
_handle_hollow_root(word, root, pattern, pattern_name) ==
  IF pattern_name = <<Fa, Alef, Ain, Lam>>
  THEN [raised |-> FALSE, word |-> <<root[1], Alef, YaHamza, root[3]>>]
  ELSE IF pattern_name = <<Ya, Fa, Ain, Lam>>
  THEN [raised |-> FALSE, word |-> <<Ya, root[1], Waw, root[3]>>]
  ELSE IF pattern_name = <<Mim, Fa, Ain, Waw, Lam>>
  THEN [raised |-> TRUE, word |-> EmptyStr]
  ELSE [raised |-> FALSE, word |-> word]

\* mafool_defective, the helper of _handle_defective_root
mafool_defective(w, r) ==
  LET third_radical == r[3]
      ending == IF third_radical \in {Waw, Alef} THEN Waw
                ELSE IF third_radical \in {Ya, AlefMaqsura} THEN AlefMaqsura
                ELSE Waw
  IN  <<Mim, r[1], r[2], ending>>

\* RootClassifier._handle_defective_root
_handle_defective_root(word, root, pattern, pattern_name) ==
  LET expanded_root == expand_shadda(root)
  IN  IF pattern_name = <<Fa, Alef, Ain, Lam>>
      THEN <<expanded_root[1], Alef, expanded_root[2], Ya>>
      ELSE IF pattern_name = <<Mim, Fa, Ain, Waw, Lam>>
      THEN mafool_defective(word, expanded_root)
      ELSE IF pattern_name = <<Ya, Fa, Ain, Lam>>
      THEN <<Ya, expanded_root[1], expanded_root[2], Ya>>
      ELSE word

\* RootClassifier._handle_first_weak_root
_handle_first_weak_root(word, root, pattern, pattern_name) == word

\* RootClassifier._handle_doubled_root
_handle_doubled_root(word, root, pattern, pattern_name) ==
  IF pattern_name = <<Fa, Alef, Ain, Lam>> THEN <<root[1], Alef, root[2]>>
  ELSE word

\* RootClassifier._handle_hamzated_root
_handle_hamzated_root(word, root, pattern, pattern_name) ==
  IF pattern_name = <<Fa, Alef, Ain, Lam>>
  THEN (IF root[3] \in HAMZA_LETTERS THEN <<root[1], Alef, root[2], YaHamza>>
        ELSE IF root[1] \in HAMZA_LETTERS THEN <<AlefMadda, root[2], root[3]>>
        ELSE word)
  ELSE word

\* RootClassifier._transform_by_root_type; the subtype of a weak root holds
\* "أجوف", "ناقص" or "مثال" exactly when it is the subtype of the second, the
\* third or the first radical alone being weak
_transform_by_root_type(word, root, pattern, pattern_name, analysis) ==
  LET root_type == IF analysis.category = "UNKNOWN" THEN "" ELSE analysis.subtype
  IN
  IF root_type = "SECOND_RADICAL_WEAK"
  THEN _handle_hollow_root(word, root, pattern, pattern_name)
  ELSE [raised |-> FALSE,
        word |-> IF root_type = "THIRD_RADICAL_WEAK"
                 THEN _handle_defective_root(word, root, pattern, pattern_name)
                 ELSE IF root_type = "FIRST_RADICAL_WEAK"
                 THEN _handle_first_weak_root(word, root, pattern, pattern_name)
                 ELSE IF analysis.category = "HAMZATED"
                 THEN _handle_hamzated_root(word, root, pattern, pattern_name)
                 ELSE IF analysis.category = "DOUBLED"
                 THEN _handle_doubled_root(word, root, pattern, pattern_name)
                 ELSE word]

\* RootClassifier.generate_with_root_type; raised = TRUE stands for the
\* ValueError of apply_pattern or the TypeError of _handle_hollow_root
generate_with_root_type(root, pattern_template, pattern_name) ==
  LET normalized_root == normalize_arabic(root, FALSE, TRUE)
      analysis == classify(normalized_root)
      basic_word == apply_pattern(normalized_root, pattern_template)
  IN  IF basic_word.raised THEN [raised |-> TRUE, word |-> EmptyStr]
      ELSE _transform_by_root_type(basic_word.word, normalized_root,
                                   pattern_template, pattern_name, analysis)

-----------------------------------------------------------------------------
(* PatternManager *)

\* sorted(list) for a list of integers
RECURSIVE InsertSorted(_, _)
InsertSorted(sortedList, x) ==
  IF sortedList = << >> THEN <<x>>
  ELSE IF x <= Head(sortedList) THEN <<x>> \o sortedList
  ELSE <<Head(sortedList)>> \o InsertSorted(Tail(sortedList), x)

RECURSIVE sorted(_)
sorted(list) ==
  IF list = << >> THEN << >> ELSE InsertSorted(sorted(Tail(list)), Head(list))

\* the root_positions list of validate_template_syntax: int(char) of every
\* character that is one of '1', '2', '3'
RECURSIVE root_positions(_)
root_positions(template) ==
  IF template = << >> THEN << >>
  ELSE IF Head(template) \in {D1, D2, D3}
       THEN <<DigitValue(Head(template))>> \o root_positions(Tail(template))
       ELSE root_positions(Tail(template))

\* validate_template_syntax without its test of the number of root positions
validate_template_syntax_any_count(template) ==
  LET positions == root_positions(template)
      values == {positions[i] : i \in 1..Len(positions)}
  IN  IF template = EmptyStr THEN [is_valid |-> FALSE, reason |-> "empty"]
      ELSE IF values # {1, 2, 3}
      THEN [is_valid |-> FALSE, reason |-> "positions"]
      ELSE IF \E i \in 1..Len(template) :
                template[i] \notin {D1, D2, D3} /\ template[i] \notin ARABIC_LETTERS
      THEN [is_valid |-> FALSE, reason |-> "character"]
      ELSE [is_valid |-> TRUE, reason |-> "valid"]

\* PatternManager.validate_template_syntax; reason names the message returned
validate_template_syntax(template) ==
  LET positions == root_positions(template)
      values == {positions[i] : i \in 1..Len(positions)}
  IN  IF template = EmptyStr THEN [is_valid |-> FALSE, reason |-> "empty"]
      ELSE IF Len(positions) # 3 THEN [is_valid |-> FALSE, reason |-> "count"]
      ELSE IF sorted(positions) # <<1, 2, 3>>
      THEN [is_valid |-> FALSE, reason |-> "positions"]
      ELSE IF Cardinality(values) # 3
      THEN [is_valid |-> FALSE, reason |-> "duplicate"]
      ELSE IF \E i \in 1..Len(template) :
                template[i] \notin {D1, D2, D3} /\ template[i] \notin ARABIC_LETTERS
      THEN [is_valid |-> FALSE, reason |-> "character"]
      ELSE [is_valid |-> TRUE, reason |-> "valid"]

-----------------------------------------------------------------------------
(* MorphologicalEngine *)

\* dict.get(field, default)
Get(d, field, default) == IF field \in DOMAIN d THEN d[field] ELSE default

\* _validate_against_root reporting the last matching pattern instead of the first
_validate_against_root_last_match(t, ht, word, root) ==
  LET invalid == [word |-> word, root |-> root, is_valid |-> FALSE,
                  pattern |-> None, template |-> None]
      all_patterns == get_all_patterns(ht)
      hits == {i \in 1..Len(all_patterns) :
                 find_pattern_match(word, root,
                                    Get(all_patterns[i].value, "template", EmptyStr))}
      m == IF hits = {} THEN 0 ELSE CHOOSE i \in hits : \A j \in hits : i >= j
  IN  IF ~is_valid_root(root) THEN invalid
      ELSE IF _search(t, root) = Nil THEN invalid
      ELSE IF m = 0 THEN invalid
      ELSE [word |-> word, root |-> root, is_valid |-> TRUE,
            pattern |-> all_patterns[m].key,
            template |-> Get(all_patterns[m].value, "template", EmptyStr)]

\* MorphologicalEngine._validate_against_root; the result without its message,
\* the keys 'pattern' and 'template' None where the code leaves them out
_validate_against_root(t, ht, word, root) ==
  LET invalid == [word |-> word, root |-> root, is_valid |-> FALSE,
                  pattern |-> None, template |-> None]
      all_patterns == get_all_patterns(ht)
      hits == {i \in 1..Len(all_patterns) :
                 find_pattern_match(word, root,
                                    Get(all_patterns[i].value, "template", EmptyStr))}
      m == IF hits = {} THEN 0 ELSE CHOOSE i \in hits : \A j \in hits : i <= j
  IN  IF ~is_valid_root(root) THEN invalid
      ELSE IF _search(t, root) = Nil THEN invalid
      ELSE IF m = 0 THEN invalid
      ELSE [word |-> word, root |-> root, is_valid |-> TRUE,
            pattern |-> all_patterns[m].key,
            template |-> Get(all_patterns[m].value, "template", EmptyStr)]

\* ArabicUtils.get_all_possible_roots: the valid candidates (a list in set order)
get_all_possible_roots(word0) ==
  LET word == normalize_arabic(word0, FALSE, TRUE)
      n == Len(word)
      possible_roots ==
        IF n >= 3
        THEN {<<word[1], word[(n \div 2) + 1], word[n]>>,
              SubSeq(word, 1, 3), SubSeq(word, n - 2, n)}
        ELSE {}
  IN  {r \in possible_roots : is_valid_root(r)}

\* the match rows of one root when the scan stops at its first matching pattern
MatchRowsFirstOnly(root, entries) ==
  IF entries = << >> THEN << >>
  ELSE <<[root |-> root, pattern |-> Head(entries).key,
          template |-> Get(Head(entries).value, "template", EmptyStr),
          description |-> Get(Head(entries).value, "description", EmptyStr)]>>

\* the match rows of one root, one per matching pattern entry
RECURSIVE MatchRows(_, _)
MatchRows(root, entries) ==
  IF entries = << >> THEN << >>
  ELSE <<[root |-> root, pattern |-> Head(entries).key,
          template |-> Get(Head(entries).value, "template", EmptyStr),
          description |-> Get(Head(entries).value, "description", EmptyStr)]>>
         \o MatchRows(root, Tail(entries))

\* the (root, pattern) pairs of _find_matching_root_and_pattern, roots from i on
RECURSIVE MatchesFrom(_, _, _, _)
MatchesFrom(all_roots, all_patterns, word, i) ==
  IF i > Len(all_roots) THEN << >>
  ELSE LET hit(e) == find_pattern_match(word, all_roots[i],
                                        Get(e.value, "template", EmptyStr))
       IN  MatchRows(all_roots[i], SelectSeq(all_patterns, hit))
             \o MatchesFrom(all_roots, all_patterns, word, i + 1)

\* MorphologicalEngine._find_matching_root_and_pattern; the result without its
\* message, 'matches' empty and 'possible_roots' {} where the code leaves them out
_find_matching_root_and_pattern(t, ht, word) ==
  LET matches == MatchesFrom(display_inorder(t), get_all_patterns(ht), word, 1)
  IN  IF matches # << >>
      THEN [word |-> word, is_valid |-> TRUE, matches |-> matches,
            possible_roots |-> {}]
      ELSE [word |-> word, is_valid |-> FALSE, matches |-> << >>,
            possible_roots |-> get_all_possible_roots(word)]

\* MorphologicalEngine.validate_word: root may be None; it changes no state
validate_word(t, ht, word, root) ==
  LET normalized_word == normalize_arabic(word, FALSE, TRUE)
  IN  IF root # None /\ root # EmptyStr
      THEN _validate_against_root(t, ht, normalized_word, root)
      ELSE _find_matching_root_and_pattern(t, ht, normalized_word)

\* generate_word without the "no template" test: a stored entry that has no
\* template is applied as the empty template
generate_word_without_template_check(t, ht, root, pattern_name) ==
  LET pattern_data == HashTable_search(ht, pattern_name)
      template == Get(pattern_data, "template", EmptyStr)
      g == apply_pattern(root, template)
      is_valid == validate_word(t, ht, g.word, root).is_valid
      root_node == _search(t, root)
  IN  IF ~is_valid_root(root) THEN [tree |-> t, ret |-> None]
      ELSE IF ~Truthy(pattern_data) THEN [tree |-> t, ret |-> None]
      ELSE IF g.raised THEN [tree |-> t, ret |-> None]
      ELSE [tree |-> IF is_valid /\ root_node # Nil
                     THEN SetDerivatives(t, root,
                            add_derivative(root_node.derivatives, g.word, pattern_name))
                     ELSE t,
            ret |-> [root |-> root, pattern |-> pattern_name, template |-> template,
                     generated_word |-> g.word, is_valid |-> is_valid,
                     description |-> Get(pattern_data, "description", EmptyStr),
                     example |-> Get(pattern_data, "example", EmptyStr)]]

\* MorphologicalEngine.generate_word: the tree after the call and the result
generate_word(t, ht, root, pattern_name) ==
  LET pattern_data == HashTable_search(ht, pattern_name)
      template == Get(pattern_data, "template", None)
      g == apply_pattern(root, template)
      is_valid == validate_word(t, ht, g.word, root).is_valid
      root_node == _search(t, root)
  IN  IF ~is_valid_root(root) THEN [tree |-> t, ret |-> None]
      ELSE IF ~Truthy(pattern_data) THEN [tree |-> t, ret |-> None]
      ELSE IF template = None \/ template = EmptyStr THEN [tree |-> t, ret |-> None]
      ELSE IF g.raised THEN [tree |-> t, ret |-> None]
      ELSE [tree |-> IF is_valid /\ root_node # Nil
                     THEN SetDerivatives(t, root,
                            add_derivative(root_node.derivatives, g.word, pattern_name))
                     ELSE t,
            ret |-> [root |-> root, pattern |-> pattern_name, template |-> template,
                     generated_word |-> g.word, is_valid |-> is_valid,
                     description |-> Get(pattern_data, "description", EmptyStr),
                     example |-> Get(pattern_data, "example", EmptyStr)]]

\* MorphologicalEngine.remove_derivative
remove_derivative(t, root, word, pattern) ==
  IF ~is_valid_root(root) THEN [tree |-> t, ret |-> FALSE]
  ELSE AVLTree_remove_derivative(t, root, word, pattern)

\* MorphologicalEngine.clear_root_derivatives
clear_root_derivatives(t, root) ==
  IF _search(t, root) # Nil
  THEN [tree |-> SetDerivatives(t, root, clear_derivatives(_search(t, root).derivatives)),
        ret |-> TRUE]
  ELSE [tree |-> t, ret |-> FALSE]

\* MorphologicalEngine.load_roots, elements from i on
RECURSIVE load_roots_from(_, _, _)
load_roots_from(t, roots, i) ==
  IF i > Len(roots) THEN t
  ELSE load_roots_from(IF is_valid_root(roots[i]) THEN AVLTree_insert(t, roots[i]) ELSE t,
                       roots, i + 1)

load_roots(t, roots) == load_roots_from(t, roots, 1)

-----------------------------------------------------------------------------
(* Inputs *)

\* all sequences over alphabet of length at most n
RECURSIVE StringsUpTo(_, _)
StringsUpTo(alphabet, n) ==
  IF n = 0 THEN {EmptyStr}
  ELSE LET shorter == StringsUpTo(alphabet, n - 1)
       IN  shorter \cup {Append(s, c) : s \in shorter, c \in alphabet}

-----------------------------------------------------------------------------
(* History variables *)

\* number of accepted insert calls made with the raw string r
Accepted(r) == IF r \in DOMAIN accepted THEN accepted[r] ELSE 0

\* `accepted` after one more accepted insert of the raw string r
Accept(r) == (r :> (Accepted(r) + 1)) @@ accepted

\* the value most recently inserted under key and not deleted since, else None
Shadow(key) == IF key \in DOMAIN shadow THEN shadow[key] ELSE None

\* `shadow` after value was inserted under key (None: after key was deleted)
Remember(key, value) == (key :> value) @@ shadow

\* the state after construction: MorphologicalEngine.__init__
NoCall == [op |-> "init"]

-----------------------------------------------------------------------------
(* The Root Index alone: any sequence of AVLTree.insert and AVLTree.search *)

MaxFrequency == 2

\* strings handed to insert and search: plain roots, spellings that the
\* normaliser rewrites, and strings that are no root
PlainRoots ==
  { <<Kaf, Ta, Ba>>, <<Dal, Ra, Sin>>, <<Ain, Lam, Mim>>, <<Mim, Dal, Dal>> }
SpelledRoots == { <<Mim, Dal, Shadda>>, <<AlefHamzaBelow, Kaf, Lam>> }
NoRoots == { EmptyStr, <<Kaf, Ta, Ba, Ra>> }
RootInputs == PlainRoots \cup SpelledRoots \cup NoRoots

\* the string AVLTree.insert stores for the raw string r
Normalized(r) == normalize_arabic(r, FALSE, TRUE)

\* AVLTree.insert accepts the raw string r
Accepts(r) == is_valid_root(Normalized(r))

InitAVL ==
  /\ tree = Nil
  /\ table = HashTable(DEFAULT_CAPACITY)
  /\ initCap = DEFAULT_CAPACITY
  /\ last = NoCall
  /\ accepted = << >>
  /\ shadow = << >>

\* the call stays within the bounds of the model
InsertInBounds(t, r) ==
  LET node == _search(t, Normalized(r))
  IN  \/ ~Accepts(r)
      \/ node = Nil
      \/ node # Nil /\ node.frequency < MaxFrequency

\* roots_tree.insert(r)
Insert(r) ==
  /\ InsertInBounds(tree, r)
  /\ tree' = AVLTree_insert(tree, r)
  /\ accepted' = IF Accepts(r) THEN Accept(r) ELSE accepted
  /\ last' = [op |-> "insert", root |-> r, before |-> tree]
  /\ UNCHANGED <<table, initCap, shadow>>

\* roots_tree.search(r)
Search(r) ==
  /\ last' = [op |-> "search", root |-> r, ret |-> _search(tree, r)]
  /\ UNCHANGED <<tree, table, initCap, accepted, shadow>>

NextAVL ==
  \/ \E r \in RootInputs : Insert(r)
  \/ \E r \in RootInputs : Search(r)

SpecAVL == InitAVL /\ [][NextAVL]_vars

-----------------------------------------------------------------------------
(* Properties of the Root Index *)

\* the height of the subtree as it is linked, not as its height fields say
RECURSIVE ActualHeight(_)
ActualHeight(node) ==
  IF node = Nil THEN 0
  ELSE 1 + Max(ActualHeight(node.left), ActualHeight(node.right))

\* the set of nodes of the tree
Nodes(t) == {get_all_nodes(t)[i] : i \in 1..Len(get_all_nodes(t))}

\* C1: after every AVLTree.insert, in any sequence of insert calls with valid,
\* invalid or duplicate roots, the balance factor of every node (the height of its
\* actual left subtree minus the height of its actual right subtree) is -1, 0 or 1.
C1_BalanceFactors ==
  \A node \in Nodes(tree) :
    ActualHeight(node.left) - ActualHeight(node.right) \in {-1, 0, 1}

\* an insert has just rotated at the top: the tree has another root node than before
C1_InsertRotated ==
  /\ last.op = "insert"
  /\ last.before # Nil
  /\ count_nodes(tree) = count_nodes(last.before) + 1
  /\ tree.root # last.before.root

\* s is strictly ascending in code-point order
Ascending(s) == \A i \in 1..(Len(s) - 1) : StrLess(s[i], s[i + 1])

\* C2: after any sequence of insert calls, display_inorder() returns exactly the
\* distinct normalized forms of the accepted roots, each once, in ascending
\* code-point order.
C2_InorderSortedDistinct ==
  LET s == display_inorder(tree)
  IN  /\ Ascending(s)
      /\ {s[i] : i \in 1..Len(s)} = {Normalized(r) : r \in DOMAIN accepted}

\* five roots are stored, one of them accepted under two spellings
C2_FiveRootsTwoSpellings ==
  /\ Len(display_inorder(tree)) = 5
  /\ Accepted(<<Mim, Dal, Shadda>>) > 0
  /\ Accepted(<<Mim, Dal, Dal>>) > 0

\* the tree with the occurrence count of the node holding `root` set to n
RECURSIVE SetFrequency(_, _, _)
SetFrequency(node, root, n) ==
  IF node = Nil THEN Nil
  ELSE IF node.root = root THEN [node EXCEPT !.frequency = n]
  ELSE IF StrLess(root, node.root)
       THEN [node EXCEPT !.left = SetFrequency(node.left, root, n)]
  ELSE [node EXCEPT !.right = SetFrequency(node.right, root, n)]

\* accepted insert calls whose normalized form is `root`, over the raw strings
\* rs of the call history acc
RECURSIVE CallsAmong(_, _, _)
CallsAmong(acc, rs, root) ==
  IF rs = {} THEN 0
  ELSE LET r == CHOOSE x \in rs : TRUE
       IN  (IF Normalized(r) = root THEN acc[r] ELSE 0)
             + CallsAmong(acc, rs \ {r}, root)

\* every node's occurrence count is the number of accepted inserts of its root
FrequencyCountsCalls(t, acc) ==
  \A node \in Nodes(t) : node.frequency = CallsAmong(acc, DOMAIN acc, node.root)

\* C3: inserting a root whose normalized form is already stored adds no node and
\* changes no other node: count_nodes() is unchanged and that root's occurrence
\* count grows by exactly 1 per call (a new node starts at 1), so after k inserts
\* of the same root the count is k.
C3_ReinsertCounts ==
  [][\A r \in RootInputs :
       (last'.op = "insert" /\ last'.root = r /\ Accepts(r)) =>
         LET nr == Normalized(r)
             node == _search(tree, nr)
         IN  /\ node # Nil =>
                  /\ count_nodes(tree') = count_nodes(tree)
                  /\ tree' = SetFrequency(tree, nr, node.frequency + 1)
             /\ node = Nil => _search(tree', nr).frequency = 1
             /\ FrequencyCountsCalls(tree', accepted')]_vars

\* a stored root has just been inserted again, in a tree of at least three nodes
C3_Reinserted ==
  /\ last.op = "insert"
  /\ Accepts(last.root)
  /\ _search(last.before, Normalized(last.root)) # Nil
  /\ _search(tree, Normalized(last.root)).frequency = 2
  /\ count_nodes(tree) >= 3

\* C4: for every root string r that AVLTree.insert accepted, a later search(r)
\* with that same string returns a node, and the node's root equals r.
C4_SearchFindsAccepted ==
  (last.op = "search" /\ Accepted(last.root) > 0) =>
    (last.ret # Nil /\ last.ret.root = last.root)

\* C22: AVLTree.insert of a string that is not a valid root after normalization
\* leaves the tree unchanged (same nodes, shape, heights, occurrence counts and
\* derivatives) and raises no exception.
C22_InvalidInsertNoMutation ==
  [][(last'.op = "insert" /\ ~Accepts(last'.root)) => tree' = tree]_vars

\* a string that is no valid root has just been handed to insert on a tree of
\* three nodes
C22_InvalidInsertOnThreeNodes ==
  /\ last.op = "insert"
  /\ ~Accepts(last.root)
  /\ count_nodes(last.before) = 3
  /\ tree = last.before

\* C30: in every reachable state of the AVLTree, the tree is a binary search tree
\* over distinct roots (every key in a node's left subtree is smaller and every
\* key in its right subtree is larger than the node's key), and each node's stored
\* height field equals 1 plus the larger of its children's actual heights (0 for
\* an absent child), including right after single and double rotations.
C30_SearchTreeWithTrueHeights ==
  \A node \in Nodes(tree) :
    /\ \A below \in Nodes(node.left) : StrLess(below.root, node.root)
    /\ \A below \in Nodes(node.right) : StrLess(node.root, below.root)
    /\ node.height = 1 + Max(ActualHeight(node.left), ActualHeight(node.right))

\* an insert has just made a double rotation: the new root went between the two
\* nodes of a left-leaning tree and is now the root node
C30_DoubleRotated ==
  /\ last.op = "insert"
  /\ count_nodes(last.before) = 2
  /\ last.before.left # Nil
  /\ count_nodes(tree) = 3
  /\ tree.root = Normalized(last.root)
  /\ tree.left.root = last.before.left.root
  /\ tree.right.root = last.before.root

-----------------------------------------------------------------------------
(* The Root Index growing: seven distinct roots, each inserted once, in any    *)
(* order                                                                      *)

GrowRoots ==
  { <<Ba, Dal, Ra>>, <<Dal, Ra, Sin>>, <<Sin, Lam, Mim>>, <<Ain, Lam, Mim>>,
    <<Fa, Ain, Lam>>, <<Kaf, Ta, Ba>>, <<Mim, Dal, Dal>> }

\* roots_tree.insert(r) of a root not stored yet
InsertOnce(r) ==
  /\ _search(tree, Normalized(r)) = Nil
  /\ Insert(r)

NextGrow ==
  \/ \E r \in GrowRoots : InsertOnce(r)

SpecGrow == InitAVL /\ [][NextGrow]_vars

\* ceil(1.44 * log2(n + 2)) for n = 0..7: 1.44 * log2 of 2, 3, ..., 9 is 1.44,
\* 2.29, 2.88, 3.35, 3.73, 4.05, 4.32, 4.57
HeightBound(n) == <<2, 3, 3, 4, 4, 5, 5, 5>>[n + 1]

\* C24: after any sequence of inserts leaving n distinct roots, get_tree_height()
\* (number of nodes on the longest root-to-leaf path, 0 for the empty tree) is at
\* most ceil(1.44 * log2(n + 2)).
C24_HeightBound ==
  /\ get_tree_height(tree) = ActualHeight(tree)
  /\ get_tree_height(tree) <= HeightBound(count_nodes(tree))

\* seven roots are stored in a tree of height 4, the tallest an AVL tree of
\* seven nodes can be
C24_SevenNodesHeightFour ==
  /\ count_nodes(tree) = 7
  /\ get_tree_height(tree) = 4

-----------------------------------------------------------------------------
(* The Pattern Store alone: any sequence of HashTable calls on a table of a    *)
(* small initial capacity, so that inserts resize it                          *)

MaxInitialCapacity == 3

\* pattern names
PatternKeys == { <<Fa, Alef, Ain, Lam>>, <<Mim, Fa, Ain, Waw, Lam>>, <<Fa, Ain, Lam>> }

\* pattern entries: the empty dict, a well-formed template, a template that
\* _validate_template rejects
EmptyDict == << >>
Fa3il == [template |-> <<D1, Alef, D2, D3>>]
TwoSlots == [template |-> <<D1, D2>>]
PatternValues == { EmptyDict, Fa3il, TwoSlots }

\* the updates handed to update_pattern
PatternUpdates == { [description |-> <<LatinX>>] }

InitHT ==
  /\ initCap \in 1..MaxInitialCapacity
  /\ table = HashTable(initCap)
  /\ tree = Nil
  /\ last = NoCall
  /\ accepted = << >>
  /\ shadow = << >>

\* patterns_table.insert(key, value)
HtInsert(key, value) ==
  /\ table' = HashTable_insert(table, key, value)
  /\ shadow' = Remember(key, value)
  /\ last' = [op |-> "insert", key |-> key, ret |-> None, capacity |-> table.capacity]
  /\ UNCHANGED <<tree, initCap, accepted>>

\* patterns_table.search(key)
HtSearch(key) ==
  /\ last' = [op |-> "search", key |-> key, ret |-> HashTable_search(table, key),
              capacity |-> table.capacity]
  /\ UNCHANGED <<tree, table, initCap, accepted, shadow>>

\* patterns_table.delete(key)
HtDelete(key) ==
  LET r == HashTable_delete(table, key)
  IN  /\ table' = r.ht
      /\ shadow' = IF r.ret THEN Remember(key, None) ELSE shadow
      /\ last' = [op |-> "delete", key |-> key, ret |-> r.ret,
                  capacity |-> table.capacity]
      /\ UNCHANGED <<tree, initCap, accepted>>

\* patterns_table.add_pattern_with_validation(key, value)
HtAdd(key, value) ==
  LET r == add_pattern_with_validation(table, key, value)
  IN  /\ table' = r.ht
      /\ shadow' = IF r.ret THEN Remember(key, value) ELSE shadow
      /\ last' = [op |-> "add", key |-> key, value |-> value, ret |-> r.ret,
                  capacity |-> table.capacity]
      /\ UNCHANGED <<tree, initCap, accepted>>

\* patterns_table.update_pattern(key, updates)
HtUpdate(key, updates) ==
  LET r == update_pattern(table, key, updates)
  IN  /\ table' = r.ht
      /\ shadow' = IF r.ret
                   THEN Remember(key, DictUpdate(HashTable_search(table, key), updates))
                   ELSE shadow
      /\ last' = [op |-> "update", key |-> key, ret |-> r.ret,
                  capacity |-> table.capacity]
      /\ UNCHANGED <<tree, initCap, accepted>>

NextHT ==
  \/ \E key \in PatternKeys, value \in PatternValues : HtInsert(key, value)
  \/ \E key \in PatternKeys : HtSearch(key)
  \/ \E key \in PatternKeys : HtDelete(key)
  \/ \E key \in PatternKeys, value \in PatternValues : HtAdd(key, value)
  \/ \E key \in PatternKeys, updates \in PatternUpdates : HtUpdate(key, updates)

SpecHT == InitHT /\ [][NextHT]_vars

-----------------------------------------------------------------------------
(* The Pattern Store filled through add_pattern_with_validation *)

\* entries handed to add_pattern_with_validation: those above, a template without
\* the marker 3, one with a Latin letter, one that repeats a marker
FirstTwice == [template |-> <<D1, D1, D2>>]
LatinLetter == [template |-> <<D1, LatinX, D2, D3>>]
ThirdTwice == [template |-> <<D1, D2, D3, D3>>]
AddedValues == PatternValues \cup { FirstTwice, LatinLetter, ThirdTwice }
AddedKeys == { <<Fa, Alef, Ain, Lam>>, <<Fa, Ain, Lam>> }

NextAdd ==
  \/ \E key \in AddedKeys, value \in AddedValues : HtAdd(key, value)
  \/ \E key \in AddedKeys : HtInsert(key, EmptyDict)
  \/ \E key \in AddedKeys : HtDelete(key)

SpecAdd == InitHT /\ [][NextAdd]_vars

-----------------------------------------------------------------------------
(* Properties of the Pattern Store *)

\* C5: after any sequence of HashTable.insert calls, including ones that trigger
\* one or more resizes, search(k) returns for every key k inserted and not deleted
\* the value most recently inserted under k, and None for every key never inserted.
C5_SearchReturnsLastInserted ==
  /\ \A key \in PatternKeys : HashTable_search(table, key) = Shadow(key)
  /\ last.op = "search" => last.ret = Shadow(last.key)

\* a search has just returned a stored value in a table that was resized twice
\* and holds a chain of two entries
C5_SearchAfterResizes ==
  /\ last.op = "search"
  /\ Truthy(last.ret)
  /\ table.capacity >= 4 * initCap
  /\ \E i \in 1..table.capacity : Len(table.buckets[i]) >= 2

\* every entry sits in the bucket its key hashes to under the capacity of ht
WellPlaced(ht) ==
  \A i \in 1..ht.capacity :
    \A j \in 1..Len(ht.buckets[i]) :
      hash_function(ht.capacity, ht.buckets[i][j].key) = i - 1

\* the step is a HashTable.insert call: a direct one, or the one a successful
\* add_pattern_with_validation or update_pattern makes
InsertCalled(l) == l.op = "insert" \/ (l.op \in {"add", "update"} /\ l.ret = TRUE)

RECURSIVE IsDoubling(_, _)
IsDoubling(c, base) ==
  c = base \/ (c > base /\ c % 2 = 0 /\ IsDoubling(c \div 2, base))

\* C7: across any sequence of insert, delete, add_pattern_with_validation and
\* update_pattern calls, each call leaves HashTable.capacity unchanged or exactly
\* doubles it; the capacity never decreases (delete never shrinks the table) and
\* is always initial_capacity times a power of two.
C7_CapacityDoublesOnly ==
  [][/\ table'.capacity \in {table.capacity, 2 * table.capacity}
     /\ last'.op = "delete" => table'.capacity = table.capacity
     /\ IsDoubling(table'.capacity, initCap')]_vars

\* a delete has just emptied a table that had grown to four times its initial
\* capacity
C7_DeleteKeptCapacity ==
  /\ last.op = "delete"
  /\ last.ret = TRUE
  /\ table.size = 0
  /\ table.capacity >= 4 * initCap

\* the key is held by an entry of some bucket chain of ht
Stored(ht, key) ==
  \E i \in 1..Len(get_all_patterns(ht)) : get_all_patterns(ht)[i].key = key

\* C27: HashTable.delete(k) returns true exactly when k is stored; afterwards
\* search(k) is None, size has decreased by exactly one, and every other key,
\* including keys chained in the same bucket, still maps to its previous value;
\* delete of an absent key returns false and changes nothing.
C27_DeleteOnlyTheKey ==
  [][last'.op = "delete" =>
       /\ last'.ret = TRUE <=> Stored(table, last'.key)
       /\ Stored(table, last'.key) =>
            /\ HashTable_search(table', last'.key) = None
            /\ ~Stored(table', last'.key)
            /\ table'.size = table.size - 1
            /\ \A key \in PatternKeys \ {last'.key} :
                 HashTable_search(table', key) = HashTable_search(table, key)
       /\ ~Stored(table, last'.key) => (last'.ret = FALSE /\ table' = table)]_vars

\* a delete has just removed one entry of a chain, and the bucket still holds
\* another entry
C27_DeletedFromChain ==
  /\ last.op = "delete"
  /\ last.ret = TRUE
  /\ table.buckets[hash_function(table.capacity, last.key) + 1] # << >>

\* C29: in every reachable state of the HashTable, after any sequence of insert,
\* delete, update_pattern and resize, the size field equals the number of entries
\* reachable through the bucket chains, no key occurs in more than one entry, and
\* every entry sits in the bucket whose index is hash_function(key) under the
\* current capacity.
C29_SizeKeysBuckets ==
  LET entries == get_all_patterns(table)
  IN  /\ Len(table.buckets) = table.capacity
      /\ table.size = Len(entries)
      /\ \A i, j \in 1..Len(entries) : entries[i].key = entries[j].key => i = j
      /\ WellPlaced(table)

\* update_pattern has just rewritten an entry of a table that was resized and
\* holds a chain of two entries
C29_UpdatedInResizedChain ==
  /\ last.op = "update"
  /\ last.ret = TRUE
  /\ table.capacity > initCap
  /\ Len(table.buckets[hash_function(table.capacity, last.key) + 1]) = 2

-----------------------------------------------------------------------------
(* The engine: a Root Index and a Pattern Store of the default capacity, and   *)
(* any interleaving of calls on them                                          *)

MaxRootFrequency == 1
MaxRecorded == 3

\* roots typed in: two plain ones, one written with a shadda, one too short
EngineRoots ==
  { <<Dal, Ra, Sin>>, <<Kaf, Ta, Ba>>, <<Mim, Dal, Shadda>>, <<Kaf, Ta>> }

\* pattern names and the entries loaded under them
Fa3ilName == <<Fa, Alef, Ain, Lam>>
Maf3ulName == <<Mim, Fa, Ain, Waw, Lam>>
NoTemplate == [description |-> <<LatinX>>]
FourthSlot == [template |-> <<D1, D2, D3 + 1>>]
EngineKeys == { Fa3ilName, Maf3ulName }
EnginePatterns ==
  { <<Fa3ilName, Fa3il>>, <<Maf3ulName, Fa3il>>, <<Maf3ulName, NoTemplate>>,
    <<Fa3ilName, FourthSlot>> }

\* words: the active participles of the two plain roots and of the doubled root
Daris == <<Dal, Alef, Ra, Sin>>
Katib == <<Kaf, Alef, Ta, Ba>>
Madid == <<Mim, Alef, Dal, Dal>>

\* (word, root) pairs handed to validate_word; root None asks for any root
ValidateInputs ==
  << <<Daris, <<Dal, Ra, Sin>>>>, <<Daris, <<Kaf, Ta, Ba>>>>,
     <<Madid, <<Mim, Dal, Shadda>>>>, <<Daris, None>> >>

\* (root, word, pattern) triples handed to remove_derivative
RemoveInputs ==
  << <<<<Dal, Ra, Sin>>, Daris, None>>, <<<<Dal, Ra, Sin>>, Daris, Maf3ulName>>,
     <<<<Kaf, Ta, Ba>>, Katib, Fa3ilName>> >>

\* the recorded generations: the frequencies of all derivative rows, summed
RECURSIVE SumFrequency(_)
SumFrequency(rows) ==
  IF rows = << >> THEN 0 ELSE Head(rows).frequency + SumFrequency(Tail(rows))

RECURSIVE TotalRecorded(_)
TotalRecorded(node) ==
  IF node = Nil THEN 0
  ELSE SumFrequency(node.derivatives)
         + TotalRecorded(node.left) + TotalRecorded(node.right)

Init ==
  /\ tree = Nil
  /\ table = HashTable(DEFAULT_CAPACITY)
  /\ initCap = DEFAULT_CAPACITY
  /\ last = NoCall
  /\ accepted = << >>
  /\ shadow = << >>

\* engine.roots_tree.insert(root)
InsertRoot(root) ==
  /\ LET node == _search(tree, Normalized(root))
     IN  node # Nil => node.frequency < MaxRootFrequency
  /\ tree' = AVLTree_insert(tree, root)
  /\ accepted' = IF Accepts(root) THEN Accept(root) ELSE accepted
  /\ last' = [op |-> "insert", root |-> root]
  /\ UNCHANGED <<table, initCap, shadow>>

\* patterns_table.insert(name, entry): load_patterns, one entry
LoadPattern(name, entry) ==
  /\ table' = HashTable_insert(table, name, entry)
  /\ shadow' = Remember(name, entry)
  /\ last' = [op |-> "load", pattern |-> name]
  /\ UNCHANGED <<tree, initCap, accepted>>

\* patterns_table.delete(name)
DeletePattern(name) ==
  LET r == HashTable_delete(table, name)
  IN  /\ table' = r.ht
      /\ shadow' = IF r.ret THEN Remember(name, None) ELSE shadow
      /\ last' = [op |-> "unload", pattern |-> name, ret |-> r.ret]
      /\ UNCHANGED <<tree, initCap, accepted>>

\* engine.generate_word(root, pattern_name)
GenerateWord(root, pattern_name) ==
  LET r == generate_word(tree, table, root, pattern_name)
  IN  /\ TotalRecorded(tree) < MaxRecorded
      /\ tree' = r.tree
      /\ last' = [op |-> "generate", root |-> root, pattern |-> pattern_name,
                  ret |-> r.ret]
      /\ UNCHANGED <<table, initCap, accepted, shadow>>

\* engine.validate_word(word, root)
ValidateWord(word, root) ==
  /\ last' = [op |-> "validate", word |-> word, root |-> root,
              ret |-> validate_word(tree, table, word, root)]
  /\ UNCHANGED <<tree, table, initCap, accepted, shadow>>

\* engine.remove_derivative(root, word, pattern)
RemoveDerivative(root, word, pattern) ==
  LET r == remove_derivative(tree, root, word, pattern)
  IN  /\ tree' = r.tree
      /\ last' = [op |-> "remove", root |-> root, word |-> word, pattern |-> pattern,
                  ret |-> r.ret]
      /\ UNCHANGED <<table, initCap, accepted, shadow>>

\* engine.clear_root_derivatives(root)
ClearRootDerivatives(root) ==
  LET r == clear_root_derivatives(tree, root)
  IN  /\ tree' = r.tree
      /\ last' = [op |-> "clear", root |-> root, ret |-> r.ret]
      /\ UNCHANGED <<table, initCap, accepted, shadow>>

Next ==
  \/ \E root \in EngineRoots : InsertRoot(root)
  \/ \E p \in EnginePatterns : LoadPattern(p[1], p[2])
  \/ \E name \in EngineKeys : DeletePattern(name)
  \/ \E root \in EngineRoots, name \in EngineKeys : GenerateWord(root, name)
  \/ \E i \in 1..Len(ValidateInputs) :
       ValidateWord(ValidateInputs[i][1], ValidateInputs[i][2])
  \/ \E i \in 1..Len(RemoveInputs) :
       RemoveDerivative(RemoveInputs[i][1], RemoveInputs[i][2], RemoveInputs[i][3])
  \/ \E root \in EngineRoots : ClearRootDerivatives(root)

Spec == Init /\ [][Next]_vars

-----------------------------------------------------------------------------
(* Properties of the engine *)

\* the frequency recorded for (word, pattern) in a derivative list: the sum over
\* the rows holding that pair, 0 if there is none
Recorded(derivatives, word, pattern) ==
  SumFrequency(SelectSeq(derivatives,
                         LAMBDA d : d.word = word /\ d.pattern = pattern))

\* the derivative list of the entry of the raw root in the tree t, << >> if the
\* index holds no entry for it
DerivativesOf(t, root) ==
  LET node == _search(t, Normalized(root))
  IN  IF node = Nil THEN << >> ELSE node.derivatives

\* C8: for any valid root previously inserted into the Root Index and any pattern
\* stored in the Pattern Store, the first generate_word(root, pattern) records
\* exactly one derivative (generated word, pattern name) with frequency 1 on that
\* root's entry, and the k-th identical call leaves the number of derivative rows
\* unchanged and sets that row's frequency to k.  Stated here for the stored
\* patterns whose template add_pattern_with_validation would accept.
C8_GenerateRecords ==
  [][(/\ last'.op = "generate"
      /\ is_valid_root(last'.root)
      /\ Accepted(last'.root) > 0
      /\ HashTable_search(table, last'.pattern) # None
      /\ _validate_template(Get(HashTable_search(table, last'.pattern),
                                "template", EmptyStr))) =>
       LET before == DerivativesOf(tree, last'.root)
           after == DerivativesOf(tree', last'.root)
           rows == SelectSeq(after, LAMBDA d : d.pattern = last'.pattern)
           k == Recorded(before, rows[1].word, last'.pattern)
       IN  /\ Len(rows) = 1
           /\ rows[1].frequency = k + 1
           /\ Len(after) = Len(before) + (IF k = 0 THEN 1 ELSE 0)]_vars

\* every derivative list holds a (word, pattern) pair at most once, with a
\* frequency of at least 1
NoDuplicateRows(derivatives) ==
  /\ \A i, j \in 1..Len(derivatives) :
       (/\ derivatives[i].word = derivatives[j].word
        /\ derivatives[i].pattern = derivatives[j].pattern) => i = j
  /\ \A i \in 1..Len(derivatives) : derivatives[i].frequency >= 1

\* C9: in every reachable state, after any interleaving of generate_word,
\* remove_derivative, clear_root_derivatives and root insertions, no Root Entry
\* holds two derivatives with the same (word, pattern_name) pair, and every stored
\* derivative has frequency >= 1.
C9_DerivativesUnique ==
  \A node \in Nodes(tree) : NoDuplicateRows(node.derivatives)

\* a third root has just been inserted while another root's entry holds two
\* derivatives, one of them generated twice
C9_TwoRowsOneRepeated ==
  /\ last.op = "insert"
  /\ count_nodes(tree) = 3
  /\ \E node \in Nodes(tree) :
       /\ Len(node.derivatives) = 2
       /\ SumFrequency(node.derivatives) = 3

\* C10: a validate_word(word, root) call that confirms a match records it on that
\* root's entry: it creates the derivative (word, matched pattern) with frequency 1
\* if absent, or increments its frequency if it already exists.
C10_ValidateRecords ==
  [][(/\ last'.op = "validate"
      /\ last'.root # None
      /\ last'.ret.is_valid) =>
       LET word == Normalized(last'.word)
           before == DerivativesOf(tree, last'.root)
           after == DerivativesOf(tree', last'.root)
       IN  Recorded(after, word, last'.ret.pattern)
             = Recorded(before, word, last'.ret.pattern) + 1]_vars

\* the entry stored under a pattern name has a template that apply_pattern can
\* apply (non-empty, every digit in it a decimal digit of value 1, 2 or 3)
Applicable(pattern_data) ==
  LET template == Get(pattern_data, "template", EmptyStr)
  IN  /\ pattern_data # None
      /\ pattern_data # EmptyDict
      /\ template # EmptyStr
      /\ \A i \in 1..Len(template) :
           IsDigit(template[i]) =>
             /\ template[i] \in DecimalDigits
             /\ DigitValue(template[i]) \in 1..3

\* the keys of the structured result of generate_word
ResultKeys ==
  {"root", "pattern", "template", "generated_word", "is_valid", "description",
   "example"}

\* C11 as stated: generate_word(root, pattern_name) returns None exactly when the
\* root is not a valid root or pattern_name is not a key of the Pattern Store.
C11_NoneOnlyForInvalidRootOrUnknownName ==
  [][last'.op = "generate" =>
       (last'.ret = None <=>
          (\/ ~is_valid_root(last'.root)
           \/ HashTable_search(table, last'.pattern) = None))]_vars

\* C11: generate_word(root, pattern_name) returns None exactly when the root is
\* not a valid root, pattern_name is not a key of the Pattern Store, or the entry
\* stored under pattern_name is empty or has no template that can be applied (no
\* template, an empty one, or one with a digit other than 1, 2, 3); otherwise it
\* returns a structured result; a call that returns None changes neither the Root
\* Index nor the Pattern Store.
C11_NoneCases ==
  [][last'.op = "generate" =>
       /\ last'.ret = None <=>
            (\/ ~is_valid_root(last'.root)
             \/ ~Applicable(HashTable_search(table, last'.pattern)))
       /\ last'.ret # None => DOMAIN last'.ret = ResultKeys
       /\ last'.ret = None => (tree' = tree /\ table' = table)]_vars

\* generate_word has just returned None for a valid root stored in the Root Index
\* and a pattern name whose stored entry has a template with the digit 4
C11_NoneForStoredName ==
  /\ last.op = "generate"
  /\ last.ret = None
  /\ is_valid_root(last.root)
  /\ _search(tree, last.root) # Nil
  /\ HashTable_search(table, last.pattern) = FourthSlot

\* the stored patterns, in bucket iteration order, that match the word for the
\* root; each with the template its entry holds ('' when it holds none)
StoredTemplate(ht, i) == Get(get_all_patterns(ht)[i].value, "template", EmptyStr)

MatchingPatterns(ht, word, root) ==
  {i \in 1..Len(get_all_patterns(ht)) :
     find_pattern_match(word, root, StoredTemplate(ht, i))}

\* the result names the first of the matching patterns and its template
ReportsFirstMatch(ht, ret, matching) ==
  \E m \in matching :
    /\ \A j \in matching : m <= j
    /\ ret.pattern = get_all_patterns(ht)[m].key
    /\ ret.template = StoredTemplate(ht, m)

\* C13 as stated: for a given valid root, validate_word(word, root) reports
\* is_valid true exactly when at least one stored pattern matches the word for
\* that root, and then reports the first matching pattern in bucket order.
C13_ValidExactlyWhenPatternMatches ==
  (/\ last.op = "validate"
   /\ last.root # None
   /\ is_valid_root(last.root)) =>
     LET matching == MatchingPatterns(table, last.word, last.root)
     IN  /\ last.ret.is_valid <=> matching # {}
         /\ last.ret.is_valid => ReportsFirstMatch(table, last.ret, matching)

\* C13: validate_word(word, root) with a root given reports is_valid true exactly
\* when the root is valid, the Root Index search finds an entry for the root as
\* given, and at least one stored pattern matches the word for that root
\* (find_pattern_match); the reported pattern name and template are those of the
\* first stored pattern that matches, in the Pattern Store's bucket iteration order.
C13_ValidWhenStoredRootMatches ==
  (/\ last.op = "validate"
   /\ last.root # None) =>
     LET matching == MatchingPatterns(table, last.word, last.root)
     IN  /\ last.ret.is_valid <=>
              (/\ is_valid_root(last.root)
               /\ _search(tree, last.root) # Nil
               /\ matching # {})
         /\ last.ret.is_valid => ReportsFirstMatch(table, last.ret, matching)

\* validate_word has just confirmed a word that two stored patterns match
C13_TwoPatternsMatch ==
  /\ last.op = "validate"
  /\ last.root # None
  /\ last.ret.is_valid
  /\ Cardinality(MatchingPatterns(table, last.word, last.root)) = 2

\* the (stored root, stored pattern) pairs whose pattern matches the word for the
\* root; a pattern is named by its place in bucket iteration order
MatchingPairs(t, ht, word) ==
  {p \in {node.root : node \in Nodes(t)} \X (1..Len(get_all_patterns(ht))) :
     find_pattern_match(word, p[1], StoredTemplate(ht, p[2]))}

\* C14: validate_word(word) with no root returns a match list containing exactly
\* one entry for each (stored root, stored pattern) pair such that the pattern
\* matches the word for that root, all of them and not only the first; it returns
\* is_valid false with the possible_roots fallback exactly when no pair matches.
C14_AllMatchesListed ==
  (/\ last.op = "validate"
   /\ last.root = None) =>
     LET pairs == MatchingPairs(tree, table, last.word)
         matches == last.ret.matches
     IN  /\ Len(matches) = Cardinality(pairs)
         /\ \A p \in pairs : \E k \in 1..Len(matches) :
              /\ matches[k].root = p[1]
              /\ matches[k].pattern = get_all_patterns(table)[p[2]].key
              /\ matches[k].template = StoredTemplate(table, p[2])
         /\ last.ret.is_valid <=> pairs # {}
         /\ pairs = {} =>
              last.ret.possible_roots = get_all_possible_roots(last.word)
         /\ pairs # {} => last.ret.possible_roots = {}

\* validate_word with no root has just listed two patterns for one stored root
\* while a second root is stored
C14_TwoMatchesListed ==
  /\ last.op = "validate"
  /\ last.root = None
  /\ Len(last.ret.matches) = 2
  /\ count_nodes(tree) = 2

\* the derivative rows that remove_derivative(word, pattern) is asked to remove
Asked(d, word, pattern) ==
  d.word = word /\ (pattern = None \/ d.pattern = pattern)

\* C23: Entry.remove_derivative(word, pattern) removes every derivative whose word
\* equals word (and whose pattern equals pattern when one is given), returns true
\* exactly when at least one was removed, and leaves all other derivatives of that
\* root, with their frequencies and relative insertion order, and all other roots
\* unchanged.
C23_RemoveOnlyAsked ==
  [][(last'.op = "remove" /\ _search(tree, last'.root) # Nil) =>
       LET before == _search(tree, last'.root).derivatives
           kept == {i \in 1..Len(before) :
                      ~Asked(before[i], last'.word, last'.pattern)}
           after == _search(tree', last'.root).derivatives
       IN  /\ Len(after) = Cardinality(kept)
           /\ \A i \in kept :
                after[Cardinality({j \in kept : j <= i})] = before[i]
           /\ last'.ret = TRUE <=> Cardinality(kept) < Len(before)
           /\ tree' = SetDerivatives(tree, last'.root, after)]_vars

\* remove_derivative with a pattern given has just removed one of two derivatives
\* of the same word, in a tree of two roots
C23_RemovedOneOfTwo ==
  /\ last.op = "remove"
  /\ last.pattern # None
  /\ last.ret = TRUE
  /\ count_nodes(tree) = 2
  /\ _search(tree, last.root) # Nil
  /\ \E i \in 1..Len(_search(tree, last.root).derivatives) :
       /\ _search(tree, last.root).derivatives[i].word = last.word
       /\ _search(tree, last.root).derivatives[i].pattern # last.pattern

\* C26: once a derivative is recorded on a root, it stays on that root's entry
\* with a frequency that never decreases until an explicit remove_derivative or
\* clear_root_derivatives for that root; inserting other roots (including inserts
\* that rotate the tree) and Pattern Store operations (including deleting the
\* pattern) never remove or alter it.
C26_DerivativesStay ==
  [][\A node \in Nodes(tree) :
       LET after == _search(tree', node.root)
           explicit == /\ last'.op \in {"remove", "clear"}
                       /\ last'.root = node.root
       IN  /\ after # Nil
           /\ ~explicit =>
                \A i \in 1..Len(node.derivatives) :
                  \E j \in 1..Len(after.derivatives) :
                    /\ after.derivatives[j].word = node.derivatives[i].word
                    /\ after.derivatives[j].pattern = node.derivatives[i].pattern
                    /\ after.derivatives[j].frequency >= node.derivatives[i].frequency
           /\ last'.op \in {"insert", "load", "unload"} =>
                after.derivatives = node.derivatives]_vars

\* the third root has just been inserted above the entry of the smallest root,
\* which holds a derivative of a pattern since deleted from the Pattern Store
C26_KeptUnderNewRootAfterDelete ==
  /\ last.op = "insert"
  /\ last.root = <<Mim, Dal, Shadda>>
  /\ count_nodes(tree) = 3
  /\ tree.left.root = <<Dal, Ra, Sin>>
  /\ tree.left.derivatives # << >>
  /\ \A i \in 1..Len(tree.left.derivatives) :
       HashTable_search(table, tree.left.derivatives[i].pattern) = None

-----------------------------------------------------------------------------
(* The engine loading lists of roots *)

\* longest list handed to load_roots
MaxListLen == 2

\* elements of the lists: two plain roots, a root written with a shadda, a
\* vocalised root, a string too short
Vocalised == <<Kaf, Fatha, Ta, Fatha, Ba>>
LoadElements ==
  { <<Kaf, Ta, Ba>>, <<Dal, Ra, Sin>>, <<Mim, Dal, Shadda>>, Vocalised, <<Kaf, Ta>> }
RootLists == StringsUpTo(LoadElements, MaxListLen)

\* no occurrence count above the bound of the model
FrequenciesInBounds(t) == \A node \in Nodes(t) : node.frequency <= MaxFrequency

\* engine.load_roots(roots)
LoadRoots(roots) ==
  /\ FrequenciesInBounds(load_roots(tree, roots))
  /\ tree' = load_roots(tree, roots)
  /\ last' = [op |-> "load_roots", roots |-> roots]
  /\ UNCHANGED <<table, initCap, accepted, shadow>>

NextLoad ==
  \/ \E roots \in RootLists : LoadRoots(roots)
  \/ \E r \in LoadElements : Insert(r)

SpecLoad == Init /\ [][NextLoad]_vars

\* the tree after roots_tree.insert of each element of roots, from place i on
RECURSIVE InsertEach(_, _, _)
InsertEach(t, roots, i) ==
  IF i > Len(roots) THEN t
  ELSE InsertEach(AVLTree_insert(t, roots[i]), roots, i + 1)

\* C21: load_roots(list) leaves the Root Index in the same state as calling
\* insert on each element in order: every element whose normalized form is a
\* valid root is inserted (or has its occurrence count incremented), and every
\* other element is skipped without mutation or error.
C21_LoadIsInsertEach ==
  [][last'.op = "load_roots" => tree' = InsertEach(tree, last'.roots, 1)]_vars

-----------------------------------------------------------------------------
(* The text utilities, applied to inputs drawn at the start *)

\* longest root text and longest template drawn
MaxTextLen == 3
MaxTemplateLen == 4

\* characters of the roots and templates passed to apply_pattern: a plain letter,
\* two letters that normalisation folds, a shadda; the markers, the digit 4 and a
\* pattern letter
PairRootAlphabet == {Kaf, AlefHamzaBelow, TaMarbuta, Shadda}
PairTemplateAlphabet == {D1, D2, D3, D3 + 1, Alef}
PairRoots == StringsUpTo(PairRootAlphabet, MaxTextLen) \ StringsUpTo(PairRootAlphabet, 1)
PairTemplates == StringsUpTo(PairTemplateAlphabet, MaxTemplateLen)

\* the inputs of one run: a root and a template
PairInputs ==
  {[op |-> "pair", root |-> r, template |-> t] : r \in PairRoots, t \in PairTemplates}

\* characters of the templates passed to validate_template_syntax: the markers,
\* the digit 4, a pattern letter and a Latin letter
TemplateAlphabet == {D1, D2, D3, D3 + 1, Alef, LatinX}
TemplateInputs ==
  {[op |-> "template", template |-> t] :
     t \in StringsUpTo(TemplateAlphabet, MaxTemplateLen)}

\* characters of the texts passed to is_valid_root and normalize_arabic: a plain
\* letter, a letter that normalisation folds, the shadda, a vowel mark and a
\* Latin letter
TextAlphabet == {Kaf, AlefHamzaBelow, Shadda, Fatha, LatinX}
TextInputs ==
  {[op |-> "text", text |-> s] : s \in StringsUpTo(TextAlphabet, MaxTextLen + 1)}

\* characters of the roots passed to classify: a plain letter, a weak letter, a
\* hamza on alef above and below, the shadda
ClassifyAlphabet == {Kaf, Waw, AlefHamzaAbove, AlefHamzaBelow, Shadda}
ClassifyInputs ==
  {[op |-> "root", root |-> r] : r \in StringsUpTo(ClassifyAlphabet, MaxTextLen)}

InitUtils ==
  /\ tree = Nil
  /\ table = HashTable(DEFAULT_CAPACITY)
  /\ initCap = DEFAULT_CAPACITY
  /\ accepted = << >>
  /\ shadow = << >>
  /\ last \in PairInputs \cup TemplateInputs \cup TextInputs \cup ClassifyInputs

\* find_pattern_match(apply_pattern(root, template), root, template); raised is
\* TRUE when apply_pattern raises, and the composition with it
RoundTrip ==
  /\ last.op = "pair"
  /\ LET g == apply_pattern(last.root, last.template)
     IN  last' = [op |-> "round_trip", root |-> last.root, template |-> last.template,
                  raised |-> g.raised,
                  ret |-> IF g.raised THEN FALSE
                          ELSE find_pattern_match(g.word, last.root, last.template)]
  /\ UNCHANGED <<tree, table, initCap, accepted, shadow>>

\* pattern_manager.validate_template_syntax(template)
ValidateTemplateSyntax ==
  /\ last.op = "template"
  /\ last' = [op |-> "validate_template_syntax", template |-> last.template,
              ret |-> validate_template_syntax(last.template)]
  /\ UNCHANGED <<tree, table, initCap, accepted, shadow>>

\* ArabicUtils.is_valid_root(text)
IsValidRoot ==
  /\ last.op = "text"
  /\ last' = [op |-> "is_valid_root", text |-> last.text,
              ret |-> is_valid_root(last.text)]
  /\ UNCHANGED <<tree, table, initCap, accepted, shadow>>

\* ArabicUtils.normalize_arabic(text), expand_shadda=True by default
NormalizeArabic ==
  /\ last.op = "text"
  /\ last' = [op |-> "normalize_arabic", text |-> last.text,
              ret |-> normalize_arabic(last.text, FALSE, TRUE)]
  /\ UNCHANGED <<tree, table, initCap, accepted, shadow>>

\* RootClassifier.classify(root)
Classify ==
  /\ last.op = "root"
  /\ last' = [op |-> "classify", given |-> last.root, ret |-> classify(last.root)]
  /\ UNCHANGED <<tree, table, initCap, accepted, shadow>>

NextUtils ==
  \/ RoundTrip
  \/ ValidateTemplateSyntax
  \/ IsValidRoot
  \/ NormalizeArabic
  \/ Classify

SpecUtils == InitUtils /\ [][NextUtils]_vars

-----------------------------------------------------------------------------
(* Properties of the text utilities *)

\* a root of exactly 3 letters of the Arabic alphabet
ThreeLetters(root) ==
  /\ Len(root) = 3
  /\ \A i \in 1..3 : root[i] \in ARABIC_LETTERS

\* the syntax rule of pattern templates: each of the markers 1, 2, 3 at least
\* once, no other digit, every other character a letter of the Arabic alphabet
ConformingTemplate(template) ==
  /\ \A d \in {D1, D2, D3} : \E i \in 1..Len(template) : template[i] = d
  /\ \A i \in 1..Len(template) : template[i] \in {D1, D2, D3} \cup ARABIC_LETTERS

\* C12: for every root of exactly 3 letters and every syntactically valid template,
\* find_pattern_match(apply_pattern(root, template), root, template) is true.
C12_RoundTrip ==
  (/\ last.op = "round_trip"
   /\ ThreeLetters(last.root)
   /\ ConformingTemplate(last.template)) =>
     (~last.raised /\ last.ret = TRUE)

\* the round trip has run on a root with two letters that normalisation folds
\* and a template that repeats a marker
C12_RoundTripFoldedRoot ==
  /\ last.op = "round_trip"
  /\ last.root = <<AlefHamzaBelow, Kaf, TaMarbuta>>
  /\ last.template = <<D1, D2, D3, D3>>
  /\ last.ret = TRUE

Occurrences(template, c) ==
  Cardinality({i \in 1..Len(template) : template[i] = c})

C16_AddChecksSyntaxRule ==
  [][last'.op = "add" =>
       LET entry == last'.value
           conforming == /\ "template" \in DOMAIN entry
                         /\ ConformingTemplate(entry["template"])
       IN  /\ ~conforming => (last'.ret = FALSE /\ table' = table)
           /\ (conforming /\ HashTable_search(table, last'.key) = None) =>
                (/\ last'.ret = TRUE
                 /\ HashTable_search(table', last'.key) = entry)]_vars

\* C17: add_pattern_with_validation(name, entry) returns failure whenever a pattern
\* named name is already stored, whatever value is stored under it (including one
\* placed by the unvalidated insert or load_patterns), and then leaves size and
\* the stored value unchanged.
C17_AddRefusesStoredName ==
  [][(/\ last'.op = "add"
      /\ HashTable_search(table, last'.key) # None) =>
       /\ last'.ret = FALSE
       /\ table'.size = table.size
       /\ HashTable_search(table', last'.key) = HashTable_search(table, last'.key)]_vars

\* C18: is_valid_root(s) is true exactly when, after shadda expansion, s has
\* exactly 3 characters and each of them is in the Arabic letter alphabet (a
\* diacritic never counts as a letter); it returns false, never raising, for any
\* other input including the empty string.
C18_ValidRootIsThreeLetters ==
  last.op = "is_valid_root" =>
    (last.ret = TRUE <=> ThreeLetters(expand_shadda(last.text)))

\* the character at place i of text is an Arabic letter marked by a shadda: a
\* shadda stands among the diacritics that follow the letter
MarkedByShadda(text, i) ==
  /\ text[i] \in ARABIC_LETTERS
  /\ \E j \in (i + 1)..Len(text) :
       /\ text[j] = Shadda
       /\ \A k \in (i + 1)..(j - 1) : is_diacritic(text[k])

\* text from place i on, every letter marked by a shadda written twice and the
\* shaddas left out
RECURSIVE WrittenTwiceFrom(_, _)
WrittenTwiceFrom(text, i) ==
  IF i > Len(text) THEN EmptyStr
  ELSE (IF text[i] = Shadda THEN EmptyStr
        ELSE IF MarkedByShadda(text, i) THEN <<text[i], text[i]>>
        ELSE <<text[i]>>)
       \o WrittenTwiceFrom(text, i + 1)

\* C19: for every input text, normalize with expand_shadda=true makes each Arabic
\* letter marked by a shadda appear twice in the output in place of the letter
\* plus shadda (the output is that of the text written with its doubled letters),
\* and the output contains no shadda and no other diacritic.
C19_ShaddaDoublesLetter ==
  last.op = "normalize_arabic" =>
    /\ last.ret = normalize_arabic(WrittenTwiceFrom(last.text, 1), FALSE, FALSE)
    /\ \A i \in 1..Len(last.ret) : ~is_diacritic(last.ret[i])

\* the subtype that the places of the hamza-class letters of a root call for
HamzatedSubtype(root) ==
  LET places == {i \in 1..Len(root) : root[i] \in HAMZA_LETTERS}
  IN  IF Cardinality(places) > 1 THEN "hamzated multiple"
      ELSE IF places = {1} THEN "hamzated first radical"
      ELSE IF places = {2} THEN "hamzated second radical"
      ELSE "hamzated third radical"

\* C20: for every 3-letter root containing at least one hamza-class letter,
\* classify returns category Hamzated, taking precedence over Doubled and Weak,
\* with the subtype fixed by the hamza's position (first, second or third
\* radical) or the multiple-hamza subtype when more than one is present.
C20_HamzaMakesHamzated ==
  (/\ last.op = "classify"
   /\ ThreeLetters(last.given)
   /\ \E i \in 1..3 : last.given[i] \in HAMZA_LETTERS) =>
     /\ last.ret.category = "HAMZATED"
     /\ last.ret.subtype = HamzatedSubtype(last.given)

-----------------------------------------------------------------------------
(* Generation by root type, applied to inputs drawn at the start *)

\* characters of the roots passed to generate_with_root_type: two plain letters,
\* the four weak letters, a hamza, the shadda
RootTypeAlphabet == {Kaf, Dal, Waw, Ya, Alef, AlefMaqsura, AlefHamzaAbove, Shadda}
RootTypeRoots == StringsUpTo(RootTypeAlphabet, MaxTextLen)

\* pattern names: the three that have rules, and one that has none
Yaf3alName == <<Ya, Fa, Ain, Lam>>
Fi3alName == <<Fa, Ain, Alef, Lam>>
RootTypeNames == {Fa3ilName, Maf3ulName, Yaf3alName, Fi3alName}

\* templates: three that pass validate_template_syntax, one with the digit 4
RootTypeTemplates ==
  { <<D1, Alef, D2, D3>>, <<Mim, D1, D2, Waw, D3>>, <<D1, D2, Alef, D3>>,
    <<D1, D2, D3 + 1>> }

RootTypeInputs ==
  {[op |-> "typed", root |-> r, template |-> t, name |-> n] :
     r \in RootTypeRoots, t \in RootTypeTemplates, n \in RootTypeNames}

InitRootType ==
  /\ tree = Nil
  /\ table = HashTable(DEFAULT_CAPACITY)
  /\ initCap = DEFAULT_CAPACITY
  /\ accepted = << >>
  /\ shadow = << >>
  /\ last \in RootTypeInputs

\* RootClassifier.generate_with_root_type(root, template, name)
GenerateWithRootType ==
  /\ last.op = "typed"
  /\ last' = [op |-> "generate_with_root_type", root |-> last.root,
              template |-> last.template, name |-> last.name,
              ret |-> generate_with_root_type(last.root, last.template, last.name)]
  /\ UNCHANGED <<tree, table, initCap, accepted, shadow>>

NextRootType ==
  \/ GenerateWithRootType

SpecRootType == InitRootType /\ [][NextRootType]_vars

\* a correction rule exists for the subtype of the root and the pattern name
HasRule(root, name) ==
  LET a == classify(root)
  IN  /\ a.category # "UNKNOWN"
      /\ \/ /\ a.subtype \in {"SECOND_RADICAL_WEAK", "THIRD_RADICAL_WEAK"}
            /\ name \in {Fa3ilName, Maf3ulName, Yaf3alName}
         \/ /\ a.category \in {"HAMZATED", "DOUBLED"}
            /\ name = Fa3ilName

\* C25: for every valid 3-letter root and every pattern name paired with a
\* syntactically valid template, generate_with_root_type returns a word and never
\* raises: the corrected form when a rule exists for the root's subtype and the
\* pattern name, and otherwise exactly apply_pattern(root, template).
C25_ReturnsWordNeverRaises ==
  (/\ last.op = "generate_with_root_type"
   /\ ThreeLetters(last.root)
   /\ is_valid_root(last.root)
   /\ validate_template_syntax(last.template).is_valid) =>
     /\ ~last.ret.raised
     /\ last.ret.word # EmptyStr
     /\ ~HasRule(last.root, last.name) =>
          last.ret.word = apply_pattern(last.root, last.template).word

\* C28: for a defective root (only the final radical weak), every word that
\* generate_with_root_type produces through a defective-root correction rule ends
\* in ya or waw.
C28_DefectiveEndsInYaOrWaw ==
  (/\ last.op = "generate_with_root_type"
   /\ classify(last.root).category = "WEAK"
   /\ classify(last.root).weak_positions = <<2>>
   /\ last.name \in {Fa3ilName, Maf3ulName, Yaf3alName}
   /\ ~last.ret.raised) =>
     last.ret.word[Len(last.ret.word)] \in {Ya, Waw}

=============================================================================
